---- MODULE Spec2Model ----
(***************************************************************************)
(* A model of the DNA deployment orchestrator (dna/dna.py) together with   *)
(* the collaborators it sequences: the SQLite registry                      *)
(* (dna/utils/db_utils.py), the socat bridge (dna/socat.py), the docker     *)
(* wrapper (dna/utils/docker_utils.py), the nginx config directory and the  *)
(* certbot wrapper (dna/utils/certbot_utils.py).                            *)
(*                                                                         *)
(* Every public method of DNA is a sequence of steps, one per statement     *)
(* that touches a collaborator; a step that raises ends the call with       *)
(* result "raised" and leaves what earlier steps did in place, as Python    *)
(* does when an exception propagates out of the method.                     *)
(***************************************************************************)
EXTENDS Integers, Sequences, FiniteSets, TLC

(***************************************************************************)
(* Bounds of the model.                                                     *)
(***************************************************************************)
\* the most requests a run of the server handles
MaxCalls == 3
\* the most certificates certbot has on the machine when one is selected
MaxCerts == 2
\* the request threads that call into the one DNA instance
Threads == {"t1", "t2"}

\* the service names and domains the callers pass in, and the images they deploy
\* with the port each image listens on (a port is the string of its digits)
Names == {"api", "web"}
DomainNames == {"api.example.com", "example.com"}
Deploys == { [image |-> "img1", port |-> <<8, 0>>],
             [image |-> "img2", port |-> <<8, 0, 8, 0>>] }

\* Python's None
None == "None"

\* what a query for a service that has no row gives (one_or_none)
NoService == [image |-> None, port |-> <<>>]

(***************************************************************************)
(* Program constants.                                                       *)
(***************************************************************************)
\* dna.py:181  for _ in range(12)
CertAttempts == 12
\* dna.py:191  time.sleep(5)
LockDelay == 5

(***************************************************************************)
(* Strings.  A dotted name is kept as a string; split and join give its     *)
(* labels, as str.split(".") and ".".join do.                               *)
(***************************************************************************)
NameTable ==
    { <<"api.example.com", <<"api", "example", "com">> >>,
      <<"example.com",     <<"example", "com">> >>,
      <<"*.example.com",   <<"*", "example", "com">> >>,
      <<"*.com",           <<"*", "com">> >>,
      <<"localhost",       <<"localhost">> >> }

split(name) == (CHOOSE p \in NameTable : p[1] = name)[2]

join(labels) == (CHOOSE p \in NameTable : p[2] = labels)[1]

\* wildcard_of that keeps the first label of the domain
wildcard_of_whole(domain) == domain

\* certbot_utils.py:63   ".".join(["*"] + domain.split(".")[1:])
wildcard_of(domain) == join(<<"*">> \o Tail(split(domain)))

\* socat.py:25   the socket a service is bridged to, "<socks>/<service>.sock"
sock_of(service) == <<"socks", service, "sock">>

\* nginx_utils.py:88-101   the upstream of the generated config, "http://unix:<sock>"
proxy_pass_of(sock) == <<"http://unix:">> \o sock

\* a <domain>.conf file: the upstream it proxies to and the certificate installed on it
\* (nginx_utils.py:126-138; certbot's nginx installer adds the certificate)
NoConf == [proxy_pass |-> <<>>, cert |-> None]

\* gen_config_with_sock that proxies to a port of the host, as gen_config_with_port does
gen_config_with_sock_as_port(domain, sock) ==
    [proxy_pass |-> <<"http://127.0.0.1:">> \o sock, cert |-> None]

gen_config_with_sock(domain, sock) == [proxy_pass |-> proxy_pass_of(sock), cert |-> None]

(***************************************************************************)
(* The certificates certbot knows, in the order it enumerates them.         *)
(***************************************************************************)
CertStores ==
    { <<>>,
      << [names |-> {"*.example.com"}, live_dir |-> "wild"],
         [names |-> {"api.example.com"}, live_dir |-> "exact"] >> }

\* the value False that cert_else_false returns when nothing matches
NoCert == [names |-> {}, live_dir |-> None]

\* the names a certificate can be issued for, and the directory certbot keeps the
\* i-th certificate it enumerates in (storage.RenewableCert, certbot_utils.py:38-41)
CertNames == {"api.example.com", "example.com", "*.example.com", "*.com"}
LiveDirs == <<"live1", "live2", "live3", "live4">>

\* every list of at most MaxCerts certificates, each for some of the names
AllCertStores ==
    UNION { { [i \in 1..n |-> [names |-> f[i], live_dir |-> LiveDirs[i]]] :
                f \in [1..n -> SUBSET CertNames \ {{}}] } : n \in 0..MaxCerts }

\* cert_scan in a loop that returns the first certificate that matches either name
RECURSIVE cert_scan_first_match(_, _, _, _)
cert_scan_first_match(store, domains, i, found_wildcard) ==
    IF i > Len(store) THEN found_wildcard
    ELSE IF domains[1] \in store[i].names \/ domains[Len(domains)] \in store[i].names
         THEN store[i]
         ELSE cert_scan_first_match(store, domains, i + 1, found_wildcard)

\* certbot_utils.py:67-72, the loop from certificate i on
RECURSIVE cert_scan(_, _, _, _)
cert_scan(store, domains, i, found_wildcard) ==
    IF i > Len(store) THEN found_wildcard
    ELSE IF domains[1] \in store[i].names THEN store[i]
    ELSE IF domains[Len(domains)] \in store[i].names
         THEN cert_scan(store, domains, i + 1, store[i])
         ELSE cert_scan(store, domains, i + 1, found_wildcard)

\* cert_else_false that does not look at force_wildcard
cert_else_false_ignores_force(store, domain, force_wildcard) ==
    cert_scan(store, <<domain, wildcard_of(domain)>>, 1, NoCert)

\* certbot_utils.py:63-72
cert_else_false(store, domain, force_wildcard) ==
    LET both == <<domain, wildcard_of(domain)>>
        domains == IF force_wildcard THEN Tail(both) ELSE both
    IN  cert_scan(store, domains, 1, NoCert)

(***************************************************************************)
(* State.                                                                   *)
(***************************************************************************)
VARIABLES
    dbService,   \* the service table: name -> [image, port], or NoService
    dbDomain,    \* the domain table: url -> "norow", None (unowned) or the owner's name
    containers,  \* docker: name -> image of the container on the bridge, or None
    procs,       \* the bridging processes inside the sidecar, oldest first
    confs,       \* the nginx directory: domain -> the file <domain>.conf, or NoConf
    loaded,      \* the configuration nginx serves (the directory at the last reload)
    certs,       \* the certificates certbot enumerates
    services,    \* DNA.services, the in-memory snapshot (names of Service objects)
    pc,          \* per thread: the statement it is at
    arg,         \* per thread: the call it is executing
    loc,         \* per thread: the locals of the call
    log,         \* per thread: the collaborator calls the current call has made
    result,      \* per thread: how the call ended, and the value it returned
    pre,         \* per thread: the state of the collaborators when the call began
    calls,       \* the number of requests received so far
    socks,       \* the sockets directory: service -> the state of <service>.sock
    fixers,      \* service -> the number of _fix_permissions threads waiting for its socket
    sidecar,     \* docker: the bridge network, the socat image and the sidecar container
    apikeys,     \* the apikey table, in the order of its rows
    now,         \* time.time(), in seconds
    session      \* the registry's Session: "active", or "inactive" after a failed flush

vars == <<dbService, dbDomain, containers, procs, confs, loaded, certs, services,
          pc, arg, loc, log, result, pre, calls, socks, fixers, sidecar, apikeys, now,
          session>>

\* what the calls of DNA leave alone: the sidecar set-up, the API keys, the clock,
\* the state of the registry's Session
aside == <<sidecar, apikeys, now, session>>

shared == <<dbService, dbDomain, containers, procs, confs, loaded, certs, services>>

NoArg == [op |-> None, service |-> None, domain |-> None, image |-> None, port |-> <<>>,
          force_wildcard |-> FALSE, force |-> FALSE, key |-> None, ip |-> None,
          proxy_pass |-> <<>>, logs_pre |-> None, default |-> None]
NoLoc == [service |-> None, ret |-> None, attempts |-> 0, slept |-> 0, todo |-> {},
          cert |-> NoCert, at |-> 0]
NoResult == [how |-> None, value |-> None]
NoPre == <<>>

\* SocatHelper._setup has run in DNA.__init__ (dna.py:36, socat.py:39): the bridge
\* network is there, the socat image is built and the sidecar was started from it
SidecarUp == sidecar = [network |-> TRUE, image |-> 1, container |-> 1, running |-> TRUE]

\* no API key has been issued; the clock starts at 0
NoKeys == apikeys = <<>> /\ now = 0 /\ session = "active"

\* what DNA.__init__ leaves of the calls before it: no thread is in a call
Idle ==
    /\ pc = [t \in Threads |-> "idle"]
    /\ arg = [t \in Threads |-> NoArg]
    /\ loc = [t \in Threads |-> NoLoc]
    /\ log = [t \in Threads |-> <<>>]
    /\ result = [t \in Threads |-> NoResult]
    /\ pre = [t \in Threads |-> NoPre]
    /\ calls = 0

\* DNA.__init__ (dna.py:24-41) in a directory where no server has run before: the
\* registry is created empty and only the sidecar is on the bridge
InitFresh ==
    /\ dbService = [n \in Names |-> NoService]
    /\ containers = [n \in Names |-> None]
    /\ procs = <<>>
    /\ services = {}
    /\ socks = [n \in Names |-> "absent"]
    /\ fixers = [n \in Names |-> 0]

\* DNA.__init__ (dna.py:24-41) where an earlier run of the server deployed both
\* services and the sidecar was removed and the sockets directory emptied since:
\* the registry file and the service containers are still there, _setup starts a
\* new sidecar (socat.py:142-151), propagate_services finds both services and
\* bind_all starts a bridging process and a _fix_permissions thread for each
\* (dna.py:38-39)
InitRestart ==
    /\ dbService = [n \in Names |-> [image |-> "img1", port |-> <<8, 0>>]]
    /\ containers = [n \in Names |-> "img1"]
    /\ procs = << [service |-> "api", port |-> <<8, 0>>],
                  [service |-> "web", port |-> <<8, 0>>] >>
    /\ services = Names
    /\ socks = [n \in Names |-> "absent"]
    /\ fixers = [n \in Names |-> 1]

Init ==
    /\ InitFresh \/ InitRestart
    /\ dbDomain = [d \in DomainNames |-> "norow"]
    /\ confs = [d \in DomainNames |-> NoConf]
    /\ loaded = [d \in DomainNames |-> NoConf]
    /\ certs \in CertStores
    /\ Idle
    /\ SidecarUp /\ NoKeys

(***************************************************************************)
(* Helpers shared by the steps.                                             *)
(***************************************************************************)
AllIdle == \A t \in Threads : pc[t] = "idle"

Snapshot == [dbService |-> dbService, dbDomain |-> dbDomain, confs |-> confs,
             services |-> services, containers |-> containers, procs |-> procs,
             loaded |-> loaded, certs |-> certs,
             sidecar |-> sidecar, apikeys |-> apikeys, now |-> now]

\* the thread moves to the next statement, having made collaborator call ev
Jump(t, label, ev) ==
    /\ pc' = [pc EXCEPT ![t] = label]
    /\ log' = [log EXCEPT ![t] = IF ev = <<>> THEN @ ELSE Append(@, ev)]
    /\ UNCHANGED <<arg, result, pre, calls>>

\* the same, for a statement that starts no thread and touches no socket
Goto(t, label, ev) ==
    /\ Jump(t, label, ev)
    /\ UNCHANGED <<socks, fixers, aside>>

\* the method returns value
Back(t, value, ev) ==
    /\ pc' = [pc EXCEPT ![t] = "done"]
    /\ log' = [log EXCEPT ![t] = IF ev = <<>> THEN @ ELSE Append(@, ev)]
    /\ result' = [result EXCEPT ![t] = [how |-> "returned", value |-> value]]
    /\ UNCHANGED <<arg, pre, calls>>

\* the same, for a statement that starts no thread and touches no socket
Return(t, value, ev) ==
    /\ Back(t, value, ev)
    /\ UNCHANGED <<socks, fixers, aside>>

\* an exception leaves the method; no later statement runs
Raise(t, exc) ==
    /\ pc' = [pc EXCEPT ![t] = "done"]
    /\ result' = [result EXCEPT ![t] = [how |-> "raised", value |-> exc]]
    /\ UNCHANGED <<arg, log, pre, calls, socks, fixers, aside>>

Enter(t, op, label) ==
    /\ pc[t] = "idle"
    /\ calls < MaxCalls
    /\ calls' = calls + 1
    /\ pc' = [pc EXCEPT ![t] = label]
    /\ arg' = [arg EXCEPT ![t] = op]
    /\ loc' = [loc EXCEPT ![t] = NoLoc]
    /\ log' = [log EXCEPT ![t] = <<>>]
    /\ result' = [result EXCEPT ![t] = NoResult]
    /\ pre' = [pre EXCEPT ![t] = Snapshot]
    /\ UNCHANGED <<shared, socks, fixers, aside>>

(***************************************************************************)
(* DNA.propagate_services (dna.py:242-257): rebuild the snapshot from the   *)
(* containers on the bridge that the registry knows.                        *)
(***************************************************************************)
\* socat.py:34   the sidecar container of the instance "dna"
SocatContainer == "dna-socat"

\* docker_utils.py:35-51   the names of the containers attached to the bridge
get_network == {SocatContainer} \cup { n \in Names : containers[n] # None }

\* db_utils.py:161-170
get_service_by_name(name) == IF dbService[name] # NoService THEN name ELSE None

\* propagate_services without the test of dna.py:255-256
propagate_services_unfiltered == get_network \ {SocatContainer}

propagate_services ==
    { n \in get_network \ {SocatContainer} : get_service_by_name(n) # None }

(***************************************************************************)
(* DNA.run_deploy (dna.py:217-234)                                          *)
(***************************************************************************)
run_deploy(t, service, image, port) ==
    /\ Enter(t, [NoArg EXCEPT !.op = "run_deploy", !.service = service,
                              !.image = image, !.port = port], "rd_wipe")

\* dna.py:145, docker_utils.py:158-174
rd_wipe(t) ==
    /\ pc[t] = "rd_wipe"
    /\ \/ /\ containers' = [containers EXCEPT ![arg[t].service] = None]
          /\ Goto(t, "rd_run", <<"wipe", arg[t].service>>)
       \/ /\ Raise(t, "DockerError")
          /\ UNCHANGED containers
    /\ UNCHANGED <<dbService, dbDomain, procs, confs, loaded, certs, services, loc>>

\* rd_run in a _do_docker_deploy that catches the error of run_image and goes on
rd_run_swallows(t) ==
    /\ pc[t] = "rd_run"
    /\ \/ /\ containers[arg[t].service] = None
          /\ containers' = [containers EXCEPT ![arg[t].service] = arg[t].image]
          /\ Goto(t, "rd_prune", <<"run", arg[t].service>>)
       \/ /\ Goto(t, "rd_prune", <<>>)
          /\ UNCHANGED containers
    /\ UNCHANGED <<dbService, dbDomain, procs, confs, loaded, certs, services, loc>>

\* dna.py:148-150, docker_utils.py:144-156
rd_run(t) ==
    /\ pc[t] = "rd_run"
    /\ \/ /\ containers[arg[t].service] = None
          /\ containers' = [containers EXCEPT ![arg[t].service] = arg[t].image]
          /\ Goto(t, "rd_prune", <<"run", arg[t].service>>)
       \/ /\ Raise(t, "DockerError")
          /\ UNCHANGED containers
    /\ UNCHANGED <<dbService, dbDomain, procs, confs, loaded, certs, services, loc>>

\* rd_prune in a run_deploy that registers the service before it binds it
rd_prune_skips_bind(t) ==
    /\ pc[t] = "rd_prune"
    /\ \/ Goto(t, "rd_db", <<"prune", arg[t].service>>)
       \/ Raise(t, "DockerError")
    /\ UNCHANGED <<shared, loc>>

\* dna.py:153, docker_utils.py:130-132
rd_prune(t) ==
    /\ pc[t] = "rd_prune"
    /\ \/ Goto(t, "rd_bind", <<"prune", arg[t].service>>)
       \/ Raise(t, "DockerError")
    /\ UNCHANGED <<shared, loc>>

\* socat.py:67-71: the socat command is started in the sidecar, detached
bind(service, port) == Append(procs, [service |-> service, port |-> port])

\* socat.py:73-79: a thread is started that runs _fix_permissions(service, port)
start_fix_permissions(service) == [fixers EXCEPT ![service] = @ + 1]

\* dna.py:231
rd_bind(t) ==
    /\ pc[t] = "rd_bind"
    /\ \/ /\ procs' = bind(arg[t].service, arg[t].port)
          /\ fixers' = start_fix_permissions(arg[t].service)
          /\ Jump(t, "rd_db", <<"bind", arg[t].service>>)
          /\ UNCHANGED <<socks, aside>>
       \/ /\ Raise(t, "DockerError")
          /\ UNCHANGED procs
    /\ UNCHANGED <<dbService, dbDomain, containers, confs, loaded, certs, services, loc>>

\* db_utils.py:100-114
create_service(name, image, port) ==
    [dbService EXCEPT ![name] = [image |-> image, port |-> port]]

\* _do_db_deploy without the test of dna.py:211: the record is written on every deploy
_do_db_deploy_overwrites(service, image, port) ==
    create_service(service, image, port)

\* dna.py:200-215
_do_db_deploy(service, image, port) ==
    IF dbService[service] = NoService
    THEN create_service(service, image, port)
    ELSE dbService

\* dna.py:232
rd_db(t) ==
    /\ pc[t] = "rd_db"
    /\ \/ /\ dbService' = _do_db_deploy(arg[t].service, arg[t].image, arg[t].port)
          /\ Goto(t, "rd_prop",
                  IF dbService[arg[t].service] = NoService
                  THEN <<"create_service", arg[t].service>> ELSE <<>>)
       \/ /\ dbService[arg[t].service] = NoService
          /\ Raise(t, "SQLError")
          /\ UNCHANGED dbService
    /\ UNCHANGED <<dbDomain, containers, procs, confs, loaded, certs, services, loc>>

\* dna.py:234
rd_prop(t) ==
    /\ pc[t] = "rd_prop"
    /\ services' = propagate_services
    /\ Return(t, None, <<"propagate", arg[t].service>>)
    /\ UNCHANGED <<dbService, dbDomain, containers, procs, confs, loaded, certs, loc>>

(***************************************************************************)
(* The caller takes the result; the thread is free for the next request.    *)
(***************************************************************************)
Finish(t) ==
    /\ pc[t] = "done"
    /\ pc' = [pc EXCEPT ![t] = "idle"]
    /\ arg' = [arg EXCEPT ![t] = NoArg]
    /\ loc' = [loc EXCEPT ![t] = NoLoc]
    /\ log' = [log EXCEPT ![t] = <<>>]
    /\ result' = [result EXCEPT ![t] = NoResult]
    /\ pre' = [pre EXCEPT ![t] = NoPre]
    /\ UNCHANGED <<shared, calls, socks, fixers, aside>>



(***************************************************************************)
(* DNA.add_domain (dna.py:270-280), with SQLite.add_domain_to_service       *)
(* (db_utils.py:116-137) and DNA._do_nginx_deploy (dna.py:157-197).         *)
(***************************************************************************)
add_domain(t, service, domain) ==
    Enter(t, [NoArg EXCEPT !.op = "add_domain", !.service = service,
                           !.domain = domain], "ad_service")

\* db_utils.py:127-128
ad_service(t) ==
    /\ pc[t] = "ad_service"
    /\ loc' = [loc EXCEPT ![t].service = get_service_by_name(arg[t].service)]
    /\ Goto(t, "ad_query", <<>>)
    /\ UNCHANGED shared

\* db_utils.py:129-130 and 212-214: the query of get_domain_by_url
ad_query(t) ==
    /\ pc[t] = "ad_query"
    /\ Goto(t, IF dbDomain[arg[t].domain] # "norow" THEN "ad_check" ELSE "ad_create", <<>>)
    /\ UNCHANGED <<shared, loc>>

\* db_utils.py:215-217: the insert of get_domain_by_url(create=True); url is the primary key
ad_create(t) ==
    /\ pc[t] = "ad_create"
    /\ IF dbDomain[arg[t].domain] = "norow"
       THEN /\ dbDomain' = [dbDomain EXCEPT ![arg[t].domain] = None]
            /\ Goto(t, "ad_check", <<>>)
       ELSE /\ Raise(t, "IntegrityError")
            /\ UNCHANGED dbDomain
    /\ UNCHANGED <<dbService, containers, procs, confs, loaded, certs, services, loc>>

\* domain_is_owned without the test of db_utils.py:132: every domain counts as free
domain_is_owned_never(domain) == FALSE

\* db_utils.py:132   if domain.service
domain_is_owned(domain) == dbDomain[domain] \notin {None, "norow"}

\* db_utils.py:132-133, then dna.py:278
ad_check(t) ==
    /\ pc[t] = "ad_check"
    /\ IF domain_is_owned(arg[t].domain)
       THEN LET ret == (dbDomain[arg[t].domain] = loc[t].service)
            IN  /\ loc' = [loc EXCEPT ![t].ret = IF ret THEN "True" ELSE "False"]
                /\ Goto(t, IF ret THEN "nd_exists" ELSE "ad_prop", <<>>)
       ELSE /\ Goto(t, "ad_append", <<>>)
            /\ UNCHANGED loc
    /\ UNCHANGED shared

\* db_utils.py:135-137, then dna.py:278
ad_append(t) ==
    /\ pc[t] = "ad_append"
    /\ IF loc[t].service = None
       THEN /\ Raise(t, "AttributeError")
            /\ UNCHANGED <<dbDomain, loc>>
       ELSE /\ dbDomain' = [dbDomain EXCEPT ![arg[t].domain] = loc[t].service]
            /\ loc' = [loc EXCEPT ![t].ret = "True"]
            /\ Goto(t, "nd_exists", <<"claim", arg[t].domain>>)
    /\ UNCHANGED <<dbService, containers, procs, confs, loaded, certs, services>>

\* nd_exists without the early return of dna.py:166-168
nd_exists_rewrites(t) ==
    /\ pc[t] = "nd_exists"
    /\ Goto(t, "nd_write", <<>>)
    /\ UNCHANGED <<shared, loc>>

\* dna.py:166-168
nd_exists(t) ==
    /\ pc[t] = "nd_exists"
    /\ Goto(t, IF confs[arg[t].domain] # NoConf THEN "ad_prop" ELSE "nd_write", <<>>)
    /\ UNCHANGED <<shared, loc>>

\* dna.py:170-176
nd_write(t) ==
    /\ pc[t] = "nd_write"
    /\ \/ /\ confs' = [confs EXCEPT ![arg[t].domain] =
                          gen_config_with_sock(arg[t].domain, sock_of(arg[t].service))]
          /\ Goto(t, "nd_reload", <<"write", arg[t].domain>>)
       \/ /\ Raise(t, "OSError")
          /\ UNCHANGED confs
    /\ UNCHANGED <<dbService, dbDomain, containers, procs, loaded, certs, services, loc>>

\* dna.py:177-178; subprocess.run without check never raises on a failed reload
nd_reload(t) ==
    /\ pc[t] = "nd_reload"
    /\ loaded' = confs
    /\ Goto(t, "nd_cert", <<"reload", arg[t].domain>>)
    /\ UNCHANGED <<dbService, dbDomain, containers, procs, confs, certs, services, loc>>

\* the parameters of Certbot.attach_cert (certbot_utils.py:74) and Certbot.run_bot
\* (certbot_utils.py:90), and the keyword dna.py:186 and dna.py:189 pass besides them
attach_cert_params == {"cert", "domain", "logger"}
run_bot_params == {"domains", "args", "logger"}
cert_call_keyword == "logfile"

\* Python binds a call's keywords to the parameters of the function
accepts(params, keyword) == keyword \in params

\* nd_lock in a loop that goes round once more than range(12) does
nd_lock_once_more(t) ==
    /\ pc[t] = "nd_cert"
    /\ loc' = [loc EXCEPT ![t].attempts = @ + 1, ![t].slept = @ + LockDelay]
    /\ Goto(t, IF loc[t].attempts = CertAttempts THEN "ad_prop" ELSE "nd_cert",
            IF loc[t].attempts = CertAttempts
            THEN <<"insecure", arg[t].domain>> ELSE <<>>)
    /\ UNCHANGED shared

\* dna.py:181-183 and 190-197: a pass of the loop that ends in LockError, which the
\* certbot library raises while another certbot run holds its lock: sleep and go
\* round again; after the last pass the loop ends and the domain stays on http
nd_lock(t) ==
    /\ pc[t] = "nd_cert"
    /\ loc' = [loc EXCEPT ![t].attempts = @ + 1, ![t].slept = @ + LockDelay]
    /\ Goto(t, IF loc[t].attempts + 1 = CertAttempts THEN "ad_prop" ELSE "nd_cert",
            IF loc[t].attempts + 1 = CertAttempts
            THEN <<"insecure", arg[t].domain>> ELSE <<>>)
    /\ UNCHANGED shared

\* dna.py:181-189 and 194-195: a pass of the loop without LockError; any other
\* exception leaves _do_nginx_deploy
nd_cert(t) ==
    /\ pc[t] = "nd_cert"
    /\ LET cert == cert_else_false(certs, arg[t].domain, FALSE)
           d == arg[t].domain
       IN  IF cert # NoCert
           THEN IF accepts(attach_cert_params, cert_call_keyword)
                THEN /\ confs' = [confs EXCEPT ![d].cert = cert.live_dir]
                     /\ Goto(t, "ad_prop", <<"install", d>>)
                     /\ UNCHANGED certs
                ELSE /\ Raise(t, "TypeError")
                     /\ UNCHANGED <<confs, certs>>
           ELSE IF accepts(run_bot_params, cert_call_keyword)
                THEN /\ certs' = Append(certs, [names |-> {d}, live_dir |-> d])
                     /\ confs' = [confs EXCEPT ![d].cert = d]
                     /\ Goto(t, "ad_prop", <<"issue", d>>)
                ELSE /\ Raise(t, "TypeError")
                     /\ UNCHANGED <<confs, certs>>
    /\ UNCHANGED <<dbService, dbDomain, containers, procs, loaded, services, loc>>

\* dna.py:280
ad_prop(t) ==
    /\ pc[t] = "ad_prop"
    /\ services' = propagate_services
    /\ Return(t, None, <<"propagate", arg[t].service>>)
    /\ UNCHANGED <<dbService, dbDomain, containers, procs, confs, loaded, certs, loc>>

(***************************************************************************)
(* DNA.delete_service (dna.py:282-304)                                      *)
(***************************************************************************)
delete_service(t, service) ==
    Enter(t, [NoArg EXCEPT !.op = "delete_service", !.service = service], "ds_get")

\* Service.domains (db_utils.py:51): the domain rows whose service_name is name
domains_of(name) == { d \in DomainNames : dbDomain[d] = name }

\* ds_get without the test of dna.py:292-293
ds_get_unchecked(t) ==
    /\ pc[t] = "ds_get"
    /\ loc' = [loc EXCEPT ![t].service = arg[t].service,
                          ![t].todo = domains_of(arg[t].service)]
    /\ Goto(t, IF domains_of(arg[t].service) = {} THEN "ds_reload" ELSE "ds_remove", <<>>)
    /\ UNCHANGED shared

\* dna.py:290-293
ds_get(t) ==
    /\ pc[t] = "ds_get"
    /\ IF get_service_by_name(arg[t].service) = None
       THEN /\ Return(t, None, <<>>)
            /\ UNCHANGED loc
       ELSE /\ loc' = [loc EXCEPT ![t].service = arg[t].service,
                                  ![t].todo = domains_of(arg[t].service)]
            /\ Goto(t, IF domains_of(arg[t].service) = {} THEN "ds_reload" ELSE "ds_remove",
                    <<>>)
    /\ UNCHANGED shared

\* ds_remove in a loop that stops after its first pass: the other files stay
ds_remove_once(t) ==
    /\ pc[t] = "ds_remove"
    /\ \E d \in loc[t].todo :
          IF confs[d] = NoConf
          THEN /\ Raise(t, "FileNotFoundError")
               /\ UNCHANGED <<confs, loc>>
          ELSE /\ confs' = [confs EXCEPT ![d] = NoConf]
               /\ loc' = [loc EXCEPT ![t].todo = @ \ {d}]
               /\ Goto(t, "ds_reload", <<"remove", d>>)
    /\ UNCHANGED <<dbService, dbDomain, containers, procs, loaded, certs, services>>

\* dna.py:295-296: one pass of the loop; os.remove raises when the file is not there
ds_remove(t) ==
    /\ pc[t] = "ds_remove"
    /\ \E d \in loc[t].todo :
          IF confs[d] = NoConf
          THEN /\ Raise(t, "FileNotFoundError")
               /\ UNCHANGED <<confs, loc>>
          ELSE /\ confs' = [confs EXCEPT ![d] = NoConf]
               /\ loc' = [loc EXCEPT ![t].todo = @ \ {d}]
               /\ Goto(t, IF loc[t].todo = {d} THEN "ds_reload" ELSE "ds_remove",
                       <<"remove", d>>)
    /\ UNCHANGED <<dbService, dbDomain, containers, procs, loaded, certs, services>>

\* dna.py:297-298
ds_reload(t) ==
    /\ pc[t] = "ds_reload"
    /\ loaded' = confs
    /\ Goto(t, "ds_unbind", <<"reload", arg[t].service>>)
    /\ UNCHANGED <<dbService, dbDomain, containers, procs, confs, certs, services, loc>>

\* whether string p is a prefix of string q
is_prefix(p, q) == Len(p) <= Len(q) /\ SubSeq(q, 1, Len(p)) = p

\* socat.py:92-95: pgrep -f prints the processes whose command line contains
\* SOCAT_CMD.format(service, port); a command line ends with its port
pgrep(service, port) ==
    { i \in 1..Len(procs) : procs[i].service = service /\ is_prefix(port, procs[i].port) }

RECURSIVE without(_, _)
without(seq, i) ==
    IF seq = <<>> THEN <<>>
    ELSE IF i = 1 THEN Tail(seq)
    ELSE <<Head(seq)>> \o without(Tail(seq), i - 1)

\* socat.py:81-98: kill is given the first line of what pgrep printed
unbind(service, port) ==
    LET pids == pgrep(service, port)
    IN  IF pids = {} THEN procs
        ELSE without(procs, CHOOSE i \in pids : \A j \in pids : i <= j)

\* dna.py:300
ds_unbind(t) ==
    /\ pc[t] = "ds_unbind"
    /\ \/ /\ procs' = unbind(loc[t].service, dbService[loc[t].service].port)
          /\ Goto(t, "ds_wipe", <<"unbind", arg[t].service>>)
       \/ /\ Raise(t, "DockerError")
          /\ UNCHANGED procs
    /\ UNCHANGED <<dbService, dbDomain, containers, confs, loaded, certs, services, loc>>

\* dna.py:301, docker_utils.py:158-174
ds_wipe(t) ==
    /\ pc[t] = "ds_wipe"
    /\ \/ /\ containers' = [containers EXCEPT ![loc[t].service] = None]
          /\ Goto(t, "ds_delete", <<"wipe", arg[t].service>>)
       \/ /\ Raise(t, "DockerError")
          /\ UNCHANGED containers
    /\ UNCHANGED <<dbService, dbDomain, procs, confs, loaded, certs, services, loc>>

\* db_delete_service without the loop of db_utils.py:149-150: the domain rows stay
db_delete_service_keeps_domains(name) ==
    [service |-> [dbService EXCEPT ![name] = NoService],
     domain  |-> dbDomain]

\* db_utils.py:139-152: the domain rows of the service and its own row, in one commit
db_delete_service(name) ==
    [service |-> [dbService EXCEPT ![name] = NoService],
     domain  |-> [d \in DomainNames |-> IF dbDomain[d] = name THEN "norow" ELSE dbDomain[d]]]

\* dna.py:303
ds_delete(t) ==
    /\ pc[t] = "ds_delete"
    /\ \/ /\ dbService' = db_delete_service(loc[t].service).service
          /\ dbDomain' = db_delete_service(loc[t].service).domain
          /\ Goto(t, "ds_prop", <<"delete_service", arg[t].service>>)
       \/ /\ Raise(t, "SQLError")
          /\ UNCHANGED <<dbService, dbDomain>>
    /\ UNCHANGED <<containers, procs, confs, loaded, certs, services, loc>>

\* dna.py:304
ds_prop(t) ==
    /\ pc[t] = "ds_prop"
    /\ services' = propagate_services
    /\ Return(t, None, <<"propagate", arg[t].service>>)
    /\ UNCHANGED <<dbService, dbDomain, containers, procs, confs, loaded, certs, loc>>

(***************************************************************************)
(* The specifications.                                                      *)
(***************************************************************************)
Call(t) ==
    \/ \E s \in Names, x \in Deploys : run_deploy(t, s, x.image, x.port)
    \/ \E s \in Names, d \in DomainNames : add_domain(t, s, d)
    \/ \E s \in Names : delete_service(t, s)

Step(t) ==
    \/ rd_wipe(t) \/ rd_run(t) \/ rd_prune(t) \/ rd_bind(t) \/ rd_db(t) \/ rd_prop(t)
    \/ ad_service(t) \/ ad_query(t) \/ ad_create(t) \/ ad_check(t) \/ ad_append(t)
    \/ nd_exists(t) \/ nd_write(t) \/ nd_reload(t) \/ nd_lock(t) \/ nd_cert(t)
    \/ ad_prop(t)
    \/ ds_get(t) \/ ds_remove(t) \/ ds_reload(t) \/ ds_unbind(t) \/ ds_wipe(t)
    \/ ds_delete(t) \/ ds_prop(t)
    \/ Finish(t)

\* the server handles one request at a time
Next == (AllIdle /\ Call("t1")) \/ Step("t1")

Spec == Init /\ [][Next]_vars

\* the server handles requests on its threads at once (the registry session is
\* opened with check_same_thread=False, db_utils.py:96): domains are added
\* concurrently, while no other certbot run holds the lock
CallThreaded(t) ==
    \E s \in Names, d \in DomainNames : add_domain(t, s, d)

StepThreaded(t) ==
    \/ ad_service(t) \/ ad_query(t) \/ ad_create(t) \/ ad_check(t) \/ ad_append(t)
    \/ nd_exists(t) \/ nd_write(t) \/ nd_reload(t) \/ nd_cert(t) \/ ad_prop(t)
    \/ Finish(t)

NextThreaded == \E t \in Threads : CallThreaded(t) \/ StepThreaded(t)

SpecThreaded == Init /\ [][NextThreaded]_vars

\* DNA.__init__ (dna.py:24-41) where the earlier run of the server also proxied
\* both domains to the service api: their rows and config files are on disk
InitProxied ==
    /\ InitRestart
    /\ dbDomain = [d \in DomainNames |-> "api"]
    /\ confs = [d \in DomainNames |-> gen_config_with_sock(d, sock_of("api"))]
    /\ loaded = confs
    /\ certs \in CertStores
    /\ Idle
    /\ SidecarUp /\ NoKeys

\* the server is only asked to delete services, one request at a time
CallTeardown(t) ==
    \E s \in Names : delete_service(t, s)

StepTeardown(t) ==
    \/ ds_get(t) \/ ds_remove(t) \/ ds_reload(t) \/ ds_unbind(t) \/ ds_wipe(t)
    \/ ds_delete(t) \/ ds_prop(t)
    \/ Finish(t)

NextTeardown == (AllIdle /\ CallTeardown("t1")) \/ StepTeardown("t1")

SpecTeardown == InitProxied /\ [][NextTeardown]_vars

(***************************************************************************)
(* Certbot.cert_else_false (certbot_utils.py:51-72) called on its own, on    *)
(* any certificates the machine may hold.                                   *)
(***************************************************************************)
InitCerts ==
    /\ InitFresh
    /\ dbDomain = [d \in DomainNames |-> "norow"]
    /\ confs = [d \in DomainNames |-> NoConf]
    /\ loaded = [d \in DomainNames |-> NoConf]
    /\ certs \in AllCertStores
    /\ Idle
    /\ SidecarUp /\ NoKeys

ce_call(t, domain, force_wildcard) ==
    Enter(t, [NoArg EXCEPT !.op = "cert_else_false", !.domain = domain,
                           !.force_wildcard = force_wildcard], "ce_scan")

\* certbot_utils.py:63-72
ce_scan(t) ==
    /\ pc[t] = "ce_scan"
    /\ LET cert == cert_else_false(certs, arg[t].domain, arg[t].force_wildcard)
       IN  /\ loc' = [loc EXCEPT ![t].cert = cert]
           /\ Return(t, cert.live_dir, <<>>)
    /\ UNCHANGED shared

NextCerts ==
    \/ AllIdle /\ \E d \in DomainNames, f \in BOOLEAN : ce_call("t1", d, f)
    \/ ce_scan("t1")
    \/ Finish("t1")

SpecCerts == InitCerts /\ [][NextCerts]_vars

(***************************************************************************)
(* SocatHelper.bind (socat.py:59-79) called on its own, with the socat      *)
(* processes of the sidecar and the _fix_permissions threads it starts.     *)
(***************************************************************************)
bind_call(t, service, port) ==
    Enter(t, [NoArg EXCEPT !.op = "bind", !.service = service, !.port = port], "bd_exec")

\* socat.py:67-71: exec_command(..., detach=True) returns once the command is started
bd_exec(t) ==
    /\ pc[t] = "bd_exec"
    /\ \/ /\ procs' = bind(arg[t].service, arg[t].port)
          /\ Goto(t, "bd_thread", <<"bind", arg[t].service>>)
       \/ /\ Raise(t, "DockerError")
          /\ UNCHANGED procs
    /\ UNCHANGED <<dbService, dbDomain, containers, confs, loaded, certs, services, loc>>

\* bd_thread in a bind that looks for the socket itself and gives up when it is
\* not there
bd_thread_checks_socket(t) ==
    /\ pc[t] = "bd_thread"
    /\ IF socks[arg[t].service] = "absent"
       THEN /\ Raise(t, "TimeoutError")
       ELSE /\ Return(t, None, <<>>)
    /\ UNCHANGED <<shared, loc>>

\* socat.py:73-79: Thread(target=self._fix_permissions, ...).start(), then bind returns
bd_thread(t) ==
    /\ pc[t] = "bd_thread"
    /\ fixers' = start_fix_permissions(arg[t].service)
    /\ Back(t, None, <<"thread", arg[t].service>>)
    /\ UNCHANGED <<shared, loc, socks, aside>>

\* SOCAT_CMD (socat.py:25) in the sidecar: a socat process started for the service
\* creates /socks/<service>.sock when it gets to listen
socat_listen(service) ==
    /\ \E i \in 1..Len(procs) : procs[i].service = service
    /\ socks[service] = "absent"
    /\ socks' = [socks EXCEPT ![service] = "created"]
    /\ UNCHANGED <<shared, pc, arg, loc, log, result, pre, calls, fixers, aside>>

\* _fix_permissions without the loop of socat.py:51-52: chmod is run at once
_fix_permissions_at_once(service) ==
    /\ fixers[service] > 0
    /\ socks' = [socks EXCEPT ![service] = "open"]
    /\ fixers' = [fixers EXCEPT ![service] = @ - 1]
    /\ UNCHANGED <<shared, pc, arg, loc, log, result, pre, calls, aside>>

\* socat.py:50-57: a _fix_permissions thread that finds the socket leaves its loop,
\* runs chmod 666 on it and ends; until then it sleeps a second at a time
_fix_permissions(service) ==
    /\ fixers[service] > 0
    /\ socks[service] # "absent"
    /\ socks' = [socks EXCEPT ![service] = "open"]
    /\ fixers' = [fixers EXCEPT ![service] = @ - 1]
    /\ UNCHANGED <<shared, pc, arg, loc, log, result, pre, calls, aside>>

NextBind ==
    \/ AllIdle /\ \E s \in Names, x \in Deploys : bind_call("t1", s, x.port)
    \/ bd_exec("t1")
    \/ bd_thread("t1")
    \/ Finish("t1")
    \/ \E s \in Names : socat_listen(s)
    \/ \E s \in Names : _fix_permissions(s)

SpecBind == Init /\ [][NextBind]_vars

\* a started thread gets to run: a _fix_permissions thread whose socket exists
\* wakes from its sleep of one second and goes on
SpecBindFair == SpecBind /\ \A s \in Names : WF_vars(_fix_permissions(s))

(***************************************************************************)
(* SocatHelper.unbind (socat.py:81-98) called on its own, between binds.    *)
(***************************************************************************)
unbind_call(t, service, port) ==
    Enter(t, [NoArg EXCEPT !.op = "unbind", !.service = service, !.port = port], "ub_exec")

\* socat.py:92-96: pgrep in the sidecar, then kill with what it printed; neither
\* exit code is looked at, exec_command raises when the sidecar is not there
ub_exec(t) ==
    /\ pc[t] = "ub_exec"
    /\ \/ /\ procs' = unbind(arg[t].service, arg[t].port)
          /\ Return(t, None, <<"unbind", arg[t].service>>)
       \/ /\ Raise(t, "DockerError")
          /\ UNCHANGED procs
    /\ UNCHANGED <<dbService, dbDomain, containers, confs, loaded, certs, services, loc>>

NextUnbind ==
    \/ AllIdle /\ \E s \in Names, x \in Deploys : bind_call("t1", s, x.port)
    \/ AllIdle /\ \E s \in Names, x \in Deploys : unbind_call("t1", s, x.port)
    \/ bd_exec("t1")
    \/ bd_thread("t1")
    \/ ub_exec("t1")
    \/ Finish("t1")

SpecUnbind == Init /\ [][NextUnbind]_vars

(***************************************************************************)
(* SocatHelper._setup (socat.py:109-153) called on whatever docker holds:   *)
(* sidecar.image is the build of socat:latest (0: no such image),            *)
(* sidecar.container the build the sidecar container was started from (0:   *)
(* no such container) and sidecar.running whether that container runs or    *)
(* has exited.                                                              *)
(***************************************************************************)
InitSetup ==
    /\ dbService = [n \in Names |-> NoService]
    /\ dbDomain = [d \in DomainNames |-> "norow"]
    /\ containers = [n \in Names |-> None]
    /\ confs = [d \in DomainNames |-> NoConf]
    /\ loaded = [d \in DomainNames |-> NoConf]
    /\ certs = <<>>
    /\ services = {}
    /\ socks = [n \in Names |-> "absent"]
    /\ fixers = [n \in Names |-> 0]
    /\ sidecar \in [network : BOOLEAN, image : 0..1, container : 0..1, running : BOOLEAN]
    /\ sidecar.container # 0 => sidecar.network
    /\ sidecar.running => sidecar.container # 0
    /\ procs \in {<<>>, << [service |-> "api", port |-> <<8, 0>>] >>}
    /\ procs # <<>> => sidecar.running
    /\ Idle /\ NoKeys

setup_call(t, force) ==
    Enter(t, [NoArg EXCEPT !.op = "_setup", !.force = force], "st_network")

\* socat.py:127-129
st_network(t) ==
    /\ pc[t] = "st_network"
    /\ \/ /\ sidecar' = [sidecar EXCEPT !.network = TRUE]
          /\ Jump(t, "st_image",
                  IF sidecar.network THEN <<>> ELSE <<"create_network", "dna">>)
          /\ UNCHANGED <<socks, fixers, apikeys, now, session>>
       \/ /\ Raise(t, "DockerError")
    /\ UNCHANGED <<shared, loc>>

\* socat.py:131
st_image(t) ==
    /\ pc[t] = "st_image"
    /\ Goto(t, IF arg[t].force \/ sidecar.image = 0 THEN "st_build" ELSE "st_container",
            <<>>)
    /\ UNCHANGED <<shared, loc>>

\* socat.py:132-139: the build is streamed; a build that fails says so in a line of
\* the stream, which is printed like the others, and the image is left as it was
st_build(t) ==
    /\ pc[t] = "st_build"
    /\ \/ /\ sidecar' = [sidecar EXCEPT !.image = @ + 1]
          /\ Jump(t, "st_wipe", <<"build", "socat">>)
          /\ UNCHANGED <<socks, fixers, apikeys, now, session>>
       \/ /\ Goto(t, "st_wipe", <<>>)
       \/ /\ Raise(t, "DockerError")
    /\ UNCHANGED <<shared, loc>>

\* st_wipe in a _setup that leaves the old sidecar container in place
st_wipe_keeps(t) ==
    /\ pc[t] = "st_wipe"
    /\ Goto(t, "st_container", <<"wipe", "dna-socat">>)
    /\ UNCHANGED <<shared, loc>>

\* socat.py:140, docker_utils.py:158-174: the socat processes end with the container
st_wipe(t) ==
    /\ pc[t] = "st_wipe"
    /\ \/ /\ sidecar' = [sidecar EXCEPT !.container = 0, !.running = FALSE]
          /\ procs' = <<>>
          /\ Jump(t, "st_container", <<"wipe", "dna-socat">>)
          /\ UNCHANGED <<socks, fixers, apikeys, now, session>>
       \/ /\ Raise(t, "DockerError")
          /\ UNCHANGED procs
    /\ UNCHANGED <<dbService, dbDomain, containers, confs, loaded, certs, services, loc>>

\* socat.py:142-151: container_exists lists the containers with all=True, the
\* exited ones too (docker_utils.py:142); run_image("socat", ...) starts the
\* container from socat:latest and raises when there is no such image (nothing by
\* that name can be pulled)
st_container(t) ==
    /\ pc[t] = "st_container"
    /\ IF sidecar.container # 0
       THEN Return(t, None, <<>>)
       ELSE \/ /\ sidecar.image # 0
               /\ sidecar' = [sidecar EXCEPT !.container = sidecar.image,
                                             !.running = TRUE]
               /\ Back(t, None, <<"run", "dna-socat">>)
               /\ UNCHANGED <<socks, fixers, apikeys, now, session>>
            \/ /\ Raise(t, "DockerError")
    /\ UNCHANGED <<shared, loc>>

NextSetup ==
    \/ AllIdle /\ \E f \in BOOLEAN : setup_call("t1", f)
    \/ st_network("t1")
    \/ st_image("t1")
    \/ st_build("t1")
    \/ st_wipe("t1")
    \/ st_container("t1")
    \/ Finish("t1")

SpecSetup == InitSetup /\ [][NextSetup]_vars

(***************************************************************************)
(* The API keys of the registry (db_utils.py:72-81, 219-246).  A row of     *)
(* apikeys is [key, ip, issued_at, expires_in]; now is time.time() in whole *)
(* seconds.                                                                 *)
(***************************************************************************)
KeyTTL == 3600
ExpiryMargin == 10

\* the tokens are os.urandom(24).hex() (flask_utils.py:53): one never comes twice
Tokens == {"k1", "k2"}
Addrs == {"10.0.0.1", "10.0.0.2"}

\* the clock readings followed: around issued_at + KeyTTL - ExpiryMargin and
\* around issued_at + KeyTTL, for keys issued at 0 and at 1
Instants ==
    {0, 1} \cup { i + KeyTTL + d : i \in {0, 1},
                                   d \in {0 - ExpiryMargin - 1, 0 - ExpiryMargin, 0 - 1, 0, 1} }

\* ApiKey.is_expired (db_utils.py:80-81)
is_expired(k, at) == k.issued_at + k.expires_in <= at + ExpiryMargin

key_rows(key) == { i \in 1..Len(apikeys) : apikeys[i].key = key }

InitKeys ==
    /\ InitFresh
    /\ dbDomain = [d \in DomainNames |-> "norow"]
    /\ confs = [d \in DomainNames |-> NoConf]
    /\ loaded = [d \in DomainNames |-> NoConf]
    /\ certs = <<>>
    /\ Idle
    /\ SidecarUp /\ NoKeys

\* time passes
tick ==
    /\ \E n \in Instants : n > now /\ now' = n
    /\ UNCHANGED <<shared, pc, arg, loc, log, result, pre, calls, socks, fixers,
                   sidecar, apikeys, session>>

new_api_key_call(t, key, ip) ==
    /\ key_rows(key) = {}
    /\ Enter(t, [NoArg EXCEPT !.op = "new_api_key", !.key = key, !.ip = ip], "ka_add")

\* db_utils.py:228-231
ka_add(t) ==
    /\ pc[t] = "ka_add"
    /\ apikeys' = Append(apikeys, [key |-> arg[t].key, ip |-> arg[t].ip,
                                    issued_at |-> now, expires_in |-> KeyTTL])
    /\ loc' = [loc EXCEPT ![t].at = now]
    /\ Back(t, arg[t].key, <<"insert", arg[t].key>>)
    /\ UNCHANGED <<shared, socks, fixers, sidecar, now, session>>

check_api_key_call(t, key, ip) ==
    Enter(t, [NoArg EXCEPT !.op = "check_api_key", !.key = key, !.ip = ip], "kc_check")

\* db_utils.py:233-237; one_or_none raises when two rows hold the key
kc_check(t) ==
    /\ pc[t] = "kc_check"
    /\ LET rows == key_rows(arg[t].key)
       IN  IF Cardinality(rows) > 1
           THEN Raise(t, "MultipleResultsFound") /\ UNCHANGED loc
           ELSE /\ loc' = [loc EXCEPT ![t].at = now]
                /\ IF rows = {}
                   THEN Return(t, "False", <<>>)
                   ELSE LET get == apikeys[CHOOSE i \in rows : TRUE]
                        IN  Return(t, IF get.ip = arg[t].ip /\ ~is_expired(get, now)
                                      THEN "True" ELSE "False", <<>>)
    /\ UNCHANGED shared

revoke_api_key_call(t, key) ==
    Enter(t, [NoArg EXCEPT !.op = "revoke_api_key", !.key = key], "kr_get")

\* db_utils.py:240-242
kr_get(t) ==
    /\ pc[t] = "kr_get"
    /\ LET rows == key_rows(arg[t].key)
       IN  IF Cardinality(rows) > 1
           THEN Raise(t, "MultipleResultsFound")
           ELSE IF rows = {}
                THEN Return(t, "False", <<>>)
                ELSE Goto(t, "kr_zero", <<>>)
    /\ UNCHANGED <<shared, loc>>

\* kr_zero in a registry that forgets a revoked key
kr_zero_deletes(t) ==
    /\ pc[t] = "kr_zero"
    /\ LET i == CHOOSE j \in key_rows(arg[t].key) : TRUE
       IN  apikeys' = SubSeq(apikeys, 1, i - 1) \o SubSeq(apikeys, i + 1, Len(apikeys))
    /\ loc' = [loc EXCEPT ![t].at = now]
    /\ Back(t, "True", <<"update", arg[t].key>>)
    /\ UNCHANGED <<shared, socks, fixers, sidecar, now, session>>

\* db_utils.py:243-246
kr_zero(t) ==
    /\ pc[t] = "kr_zero"
    /\ LET i == CHOOSE j \in key_rows(arg[t].key) : TRUE
           get == [apikeys[i] EXCEPT !.expires_in = 0]
       IN  /\ apikeys' = [apikeys EXCEPT ![i] = get]
           /\ Back(t, IF is_expired(get, now) THEN "True" ELSE "False",
                   <<"update", arg[t].key>>)
    /\ loc' = [loc EXCEPT ![t].at = now]
    /\ UNCHANGED <<shared, socks, fixers, sidecar, now, session>>

NextKeys ==
    \/ AllIdle /\ \E k \in Tokens, a \in Addrs : new_api_key_call("t1", k, a)
    \/ AllIdle /\ \E k \in Tokens, a \in Addrs : check_api_key_call("t1", k, a)
    \/ AllIdle /\ \E k \in Tokens : revoke_api_key_call("t1", k)
    \/ ka_add("t1")
    \/ kc_check("t1")
    \/ kr_get("t1")
    \/ kr_zero("t1")
    \/ tick
    \/ Finish("t1")

SpecKeys == InitKeys /\ [][NextKeys]_vars

(***************************************************************************)
(* The registry called directly (db_utils.py:100-114, 183-192, 248-255).    *)
(* All calls go through the one Session made in __init__ (db_utils.py:98),  *)
(* and nothing in the program calls its rollback().  With the SQLAlchemy    *)
(* the program pins (setup.py: 1.3.22) a commit() whose flush fails rolls   *)
(* the database transaction back, drops the pending object and leaves the   *)
(* Session inactive: until rollback() every statement on it raises          *)
(* InvalidRequestError.                                                     *)
(***************************************************************************)
create_service_call(t, name, image, port) ==
    Enter(t, [NoArg EXCEPT !.op = "create_service", !.service = name,
                           !.image = image, !.port = port], "cs_add")

\* db_utils.py:112-114, 254-255: the flush of a second row with the primary key of
\* an existing one fails, with FlushError when the existing object is in the
\* Session's identity map and with IntegrityError from the INSERT otherwise
cs_add(t) ==
    /\ pc[t] = "cs_add"
    /\ IF session = "inactive"
       THEN Raise(t, "InvalidRequestError") /\ UNCHANGED dbService
       ELSE IF dbService[arg[t].service] # NoService
            THEN /\ session' = "inactive"
                 /\ pc' = [pc EXCEPT ![t] = "done"]
                 /\ \E exc \in {"IntegrityError", "FlushError"} :
                        result' = [result EXCEPT ![t] = [how |-> "raised", value |-> exc]]
                 /\ UNCHANGED <<dbService, arg, log, pre, calls, socks, fixers,
                                sidecar, apikeys, now>>
            ELSE /\ dbService' = create_service(arg[t].service, arg[t].image, arg[t].port)
                 /\ Return(t, arg[t].service, <<"insert", arg[t].service>>)
    /\ UNCHANGED <<dbDomain, containers, procs, confs, loaded, certs, services, loc>>

get_service_by_name_call(t, name) ==
    Enter(t, [NoArg EXCEPT !.op = "get_service_by_name", !.service = name], "gs_query")

\* db_utils.py:192
gs_query(t) ==
    /\ pc[t] = "gs_query"
    /\ IF session = "inactive"
       THEN Raise(t, "InvalidRequestError")
       ELSE Return(t, get_service_by_name(arg[t].service), <<>>)
    /\ UNCHANGED <<shared, loc>>

NextRegistry ==
    \/ AllIdle /\ \E n \in Names, d \in Deploys :
                      create_service_call("t1", n, d.image, d.port)
    \/ AllIdle /\ \E n \in Names : get_service_by_name_call("t1", n)
    \/ cs_add("t1")
    \/ gs_query("t1")
    \/ Finish("t1")

SpecRegistry == InitKeys /\ [][NextRegistry]_vars

(***************************************************************************)
(* The /remove_domain route of the REST API (flask_utils.py:126-134), next  *)
(* to add_domain.                                                           *)
(***************************************************************************)
\* the methods class DNA defines (dna.py:24-341)
DNAMethods == {"__init__", "__del__", "_make_dir", "_configure", "set_print",
               "reset_print", "pull_image", "build_image", "_do_docker_deploy",
               "_do_nginx_deploy", "_do_db_deploy", "run_deploy",
               "propagate_services", "get_service_info", "add_domain",
               "delete_service", "docker_logs", "nginx_logs", "dna_logs",
               "attach_logs_to_flask"}

remove_domain_route(t, service, domain) ==
    Enter(t, [NoArg EXCEPT !.op = "remove_domain", !.service = service,
                           !.domain = domain], "rm_call")

\* flask_utils.py:134: the attribute looked up on the DNA instance is not there
rm_call(t) ==
    /\ pc[t] = "rm_call"
    /\ "remove_domain" \notin DNAMethods
    /\ Raise(t, "AttributeError")
    /\ UNCHANGED <<shared, loc>>

CallRoutes(t) ==
    \/ \E s \in Names, d \in DomainNames : remove_domain_route(t, s, d)
    \/ \E s \in Names, d \in DomainNames : add_domain(t, s, d)

StepRoutes(t) ==
    \/ rm_call(t)
    \/ ad_service(t) \/ ad_query(t) \/ ad_create(t) \/ ad_check(t) \/ ad_append(t)
    \/ nd_exists(t) \/ nd_write(t) \/ nd_reload(t) \/ nd_lock(t) \/ nd_cert(t)
    \/ ad_prop(t)
    \/ Finish(t)

NextRoutes == (AllIdle /\ CallRoutes("t1")) \/ StepRoutes("t1")

SpecRoutes == Init /\ [][NextRoutes]_vars

(***************************************************************************)
(* Nginx.gen_config (nginx_utils.py:103-138) called on its own.  The server  *)
(* block is kept as its directives; server_name is the list of the names     *)
(* the code joins with spaces, each name as its labels.                      *)
(***************************************************************************)
ConfigDomains == {"localhost", "example.com", "api.example.com"}
Defaults == {None, "example.com", "api.example.com"}
Targets == { proxy_pass_of(sock_of("api")), <<"http://127.0.0.1:", "8080">> }
LogPrefixes == {"/var/log/nginx/", "logs/"}

\* gen_config that serves www.<domain> for every domain
gen_config_www_always(domain, proxy_pass, logs_pre, default) ==
    [server_name |-> <<split(domain), <<"www">> \o split(domain)>>
                     \o (IF domain = default THEN << <<"default_server">> >> ELSE <<>>),
     listen      |-> "80",
     include     |-> "proxy_params",
     proxy_pass  |-> proxy_pass,
     access_log  |-> <<logs_pre, "access.log">>,
     error_log   |-> <<logs_pre, "error.log">>]

\* nginx_utils.py:118-138, with self.default as default
gen_config(domain, proxy_pass, logs_pre, default) ==
    LET is_tld == Len(split(domain)) = 2
    IN  [server_name |-> <<split(domain)>>
                         \o (IF is_tld THEN << <<"www">> \o split(domain) >> ELSE <<>>)
                         \o (IF domain = default THEN << <<"default_server">> >> ELSE <<>>),
         listen      |-> "80",
         include     |-> "proxy_params",
         proxy_pass  |-> proxy_pass,
         access_log  |-> <<logs_pre, "access.log">>,
         error_log   |-> <<logs_pre, "error.log">>]

gen_config_call(t, domain, proxy_pass, logs_pre, default) ==
    Enter(t, [NoArg EXCEPT !.op = "gen_config", !.domain = domain,
                           !.proxy_pass = proxy_pass, !.logs_pre = logs_pre,
                           !.default = default], "gc_build")

gc_build(t) ==
    /\ pc[t] = "gc_build"
    /\ Return(t, gen_config(arg[t].domain, arg[t].proxy_pass, arg[t].logs_pre,
                            arg[t].default), <<>>)
    /\ UNCHANGED <<shared, loc>>

NextConfig ==
    \/ AllIdle /\ \E d \in ConfigDomains, p \in Targets, l \in LogPrefixes, x \in Defaults :
                      gen_config_call("t1", d, p, l, x)
    \/ gc_build("t1")
    \/ Finish("t1")

SpecConfig == InitKeys /\ [][NextConfig]_vars

(***************************************************************************)
(* Properties.                                                              *)
(***************************************************************************)
\* thread t is in a call of op (pre[t], arg[t], loc[t] and log[t] are those of the call)
InCall(t, op) == pc[t] # "idle" /\ arg[t].op = op

\* the names of the collaborator calls made so far by the call of thread t
Events(t) == { log[t][i][1] : i \in 1..Len(log[t]) }

\* the call of thread t has ended without an exception
Returned(t) == pc[t] = "done" /\ result[t].how = "returned"

\* the calls that change the proxy, the certificates or the claim of a domain
DomainEffects == {"claim", "write", "remove", "reload", "install", "issue", "insecure"}

Unowned == {None, "norow"}

\* C1: once a domain is claimed by a service, a claim of the same domain for
\* another (registered) service reports failure and leaves the first owner in place.
C1_ClaimNotOverwritten ==
    \A t \in Threads :
        InCall(t, "add_domain") =>
            LET d == arg[t].domain
                s1 == pre[t].dbDomain[d]
            IN  (s1 \in Names \ {arg[t].service}
                 /\ pre[t].dbService[arg[t].service] # NoService)
                => /\ dbDomain[d] = s1
                   /\ loc[t].ret # "True"
                   /\ pc[t] \in {"ad_prop", "done"} => loc[t].ret = "False"

C1_Witness ==
    \E t \in Threads :
        /\ InCall(t, "add_domain") /\ pc[t] = "done"
        /\ pre[t].dbDomain[arg[t].domain] \in Names \ {arg[t].service}
        /\ pre[t].dbService[arg[t].service] # NoService
        /\ loc[t].ret = "False"
        /\ dbDomain[arg[t].domain] = pre[t].dbDomain[arg[t].domain]

\* C2: of two concurrent add_domain calls for the same domain, unowned when each
\* began, made for two different services, at most one sees its claim succeed, and
\* the domain ends owned by the service of the call whose claim succeeded.
C2_AtomicClaim ==
    \A t, u \in Threads :
        (/\ t # u
         /\ InCall(t, "add_domain") /\ InCall(u, "add_domain")
         /\ arg[t].domain = arg[u].domain
         /\ arg[t].service # arg[u].service
         /\ pre[t].dbDomain[arg[t].domain] \in Unowned
         /\ pre[u].dbDomain[arg[u].domain] \in Unowned)
        => /\ ~(loc[t].ret = "True" /\ loc[u].ret = "True")
           /\ loc[t].ret = "True" => dbDomain[arg[t].domain] = arg[t].service

\* C3: the registry step of delete_service removes the service row and every
\* domain row of the service at once, and no other row.
C3_DeleteCascades ==
    \A t \in Threads :
        InCall(t, "delete_service") /\ pre[t].dbService[arg[t].service] # NoService =>
            LET s == arg[t].service
            IN  IF "delete_service" \in Events(t)
                THEN /\ dbService[s] = NoService
                     /\ \A d \in DomainNames : dbDomain[d] # s
                     /\ \A n \in Names \ {s} : dbService[n] = pre[t].dbService[n]
                     /\ \A d \in DomainNames :
                            pre[t].dbDomain[d] # s => dbDomain[d] = pre[t].dbDomain[d]
                ELSE /\ dbService = pre[t].dbService
                     /\ dbDomain = pre[t].dbDomain

C3_Witness ==
    \E t \in Threads :
        /\ InCall(t, "delete_service") /\ Returned(t)
        /\ "delete_service" \in Events(t)
        /\ \E d, e \in DomainNames :
              /\ pre[t].dbDomain[d] = arg[t].service
              /\ pre[t].dbDomain[e] \in Names \ {arg[t].service}
              /\ dbDomain[d] = "norow"
              /\ dbDomain[e] = pre[t].dbDomain[e]

\* the registry, the proxy, the containers and the bridge are as the call of t found them
Untouched(t) ==
    /\ dbService = pre[t].dbService
    /\ dbDomain = pre[t].dbDomain
    /\ confs = pre[t].confs
    /\ loaded = pre[t].loaded
    /\ certs = pre[t].certs
    /\ containers = pre[t].containers
    /\ procs = pre[t].procs

\* C4: add_domain(s, d) for a registered s and an unowned d without config file,
\* when no file operation fails and the certbot lock is free, claims d, writes
\* <d>.conf with the bridge socket of s as upstream, reloads the proxy and then
\* requests issuance for [d] if no certificate matches d, or installs the
\* matching certificate if one does, in this order.
C4_AddDomainSteps ==
    \A t \in Threads :
        (/\ InCall(t, "add_domain") /\ pc[t] = "done"
         /\ pre[t].dbService[arg[t].service] # NoService
         /\ pre[t].dbDomain[arg[t].domain] \in Unowned
         /\ pre[t].confs[arg[t].domain] = NoConf
         /\ result[t].value # "OSError"
         /\ loc[t].attempts = 0)
        => LET d == arg[t].domain
               certstep == IF cert_else_false(pre[t].certs, d, FALSE) = NoCert
                           THEN "issue" ELSE "install"
           IN  /\ log[t] = << <<"claim", d>>, <<"write", d>>, <<"reload", d>>,
                              <<certstep, d>>, <<"propagate", arg[t].service>> >>
               /\ confs[d].proxy_pass = proxy_pass_of(sock_of(arg[t].service))

ReportsFailure(t) == result[t].how = "raised" \/ result[t].value = "False"

\* C6: add_domain(s, d) when d is claimed by another service changes nothing (no
\* config written, no reload, no certificate request, owner unchanged) and
\* returns failure to its caller.
C6_AddDomainFailure ==
    \A t \in Threads :
        (/\ InCall(t, "add_domain") /\ pc[t] = "done"
         /\ pre[t].dbDomain[arg[t].domain] \in Names \ {arg[t].service})
        => /\ Events(t) \cap DomainEffects = {}
           /\ Untouched(t)
           /\ ReportsFailure(t)

\* C7: run_deploy of a service that is already registered never changes its
\* registry record (image and port stay those it was registered with), and when
\* it returns the container was removed and started again from the new image.
C7_RedeployKeepsRecord ==
    \A t \in Threads :
        (InCall(t, "run_deploy") /\ pre[t].dbService[arg[t].service] # NoService)
        => /\ dbService = pre[t].dbService
           /\ "create_service" \notin Events(t)
           /\ Returned(t) =>
                 /\ SubSeq(log[t], 1, 2) = << <<"wipe", arg[t].service>>,
                                              <<"run", arg[t].service>> >>
                 /\ containers[arg[t].service] = arg[t].image

C7_Witness ==
    \E t \in Threads :
        /\ InCall(t, "run_deploy") /\ Returned(t)
        /\ pre[t].dbService[arg[t].service] # NoService
        /\ pre[t].containers[arg[t].service] # None
        /\ pre[t].dbService[arg[t].service].image # arg[t].image
        /\ pre[t].dbService[arg[t].service].port # arg[t].port
        /\ containers[arg[t].service] = arg[t].image
        /\ dbService[arg[t].service] = pre[t].dbService[arg[t].service]

\* the collaborator calls of a run_deploy(s, ...) that runs to its end
DeploySteps(s, create) ==
    << <<"wipe", s>>, <<"run", s>>, <<"prune", s>>, <<"bind", s>> >>
    \o (IF create THEN << <<"create_service", s>> >> ELSE <<>>)
    \o << <<"propagate", s>> >>

IsPrefix(a, b) == Len(a) <= Len(b) /\ SubSeq(b, 1, Len(a)) = a

\* C8: run_deploy makes its collaborator calls in one order: wipe, run, prune,
\* bind, create_service (exactly when the service was not registered), propagate;
\* the registry record is only created after the container was started and the
\* bind issued.
C8_DeployOrder ==
    \A t \in Threads :
        InCall(t, "run_deploy") =>
            LET s == arg[t].service
                absent == pre[t].dbService[s] = NoService
            IN  /\ IsPrefix(log[t], DeploySteps(s, absent))
                /\ Returned(t) => log[t] = DeploySteps(s, absent)
                /\ (absent /\ dbService[s] # NoService)
                   => {"run", "bind", "create_service"} \subseteq Events(t)

C8_Witness ==
    \E t \in Threads :
        /\ InCall(t, "run_deploy") /\ Returned(t)
        /\ pre[t].dbService[arg[t].service] = NoService
        /\ log[t] = DeploySteps(arg[t].service, TRUE)
        /\ dbService[arg[t].service] = [image |-> arg[t].image, port |-> arg[t].port]

\* C9: a run_deploy that fails at a step performs no later step and undoes no
\* earlier one: the container, the bridge, the registry and the snapshot are as
\* the steps before the failing one left them.
C9_DeployAbort ==
    \A t \in Threads :
        (InCall(t, "run_deploy") /\ pc[t] = "done" /\ result[t].how = "raised")
        => LET s == arg[t].service
               absent == pre[t].dbService[s] = NoService
               done == Events(t)
           IN  /\ IsPrefix(log[t], DeploySteps(s, absent))
               /\ "propagate" \notin done
               /\ containers = [pre[t].containers EXCEPT ![s] =
                     IF "run" \in done THEN arg[t].image
                     ELSE IF "wipe" \in done THEN None ELSE @]
               /\ procs = IF "bind" \in done
                          THEN Append(pre[t].procs, [service |-> s, port |-> arg[t].port])
                          ELSE pre[t].procs
               /\ dbService = IF "create_service" \in done
                              THEN [pre[t].dbService EXCEPT ![s] =
                                       [image |-> arg[t].image, port |-> arg[t].port]]
                              ELSE pre[t].dbService
               /\ services = pre[t].services
               /\ dbDomain = pre[t].dbDomain /\ confs = pre[t].confs

\* run_image failed: the old container is gone, nothing was bound or registered
C9_Witness ==
    \E t \in Threads :
        /\ InCall(t, "run_deploy") /\ pc[t] = "done" /\ result[t].how = "raised"
        /\ log[t] = << <<"wipe", arg[t].service>> >>
        /\ pre[t].containers[arg[t].service] # None
        /\ containers[arg[t].service] = None
        /\ procs = pre[t].procs
        /\ dbService = pre[t].dbService
        /\ services = pre[t].services

\* C10: delete_service of a name that is not registered returns without an error
\* and without any collaborator call: no config removed, no reload, no unbind, no
\* container removed, registry and snapshot unchanged.
C10_DeleteAbsentNoop ==
    \A t \in Threads :
        (InCall(t, "delete_service") /\ pre[t].dbService[arg[t].service] = NoService)
        => /\ log[t] = <<>>
           /\ Untouched(t)
           /\ services = pre[t].services
           /\ pc[t] \in {"ds_get", "done"}
           /\ pc[t] = "done" => Returned(t)

\* the name is absent from the registry although its container, a bridging process
\* and a snapshot entry may be there
C10_Witness ==
    \E t \in Threads :
        /\ InCall(t, "delete_service") /\ Returned(t)
        /\ pre[t].dbService[arg[t].service] = NoService
        /\ pre[t].containers[arg[t].service] # None
        /\ containers = pre[t].containers

\* the collaborator calls a delete_service(s) makes after it removed the config files
TeardownSteps(s) ==
    << <<"reload", s>>, <<"unbind", s>>, <<"wipe", s>>, <<"delete_service", s>>,
       <<"propagate", s>> >>

\* C11: delete_service of a registered service removes the config file of every
\* domain the service owns and reloads the proxy, then unbinds the bridge, then
\* removes the container, then deletes the registry record; once the bridge is
\* unbound or the container removed, no config file of a domain of the service
\* exists and the proxy serves none.
C11_DeleteOrder ==
    \A t \in Threads :
        (InCall(t, "delete_service") /\ pre[t].dbService[arg[t].service] # NoService)
        => LET s == arg[t].service
               owned == { d \in DomainNames : pre[t].dbDomain[d] = s }
               n == Cardinality(owned)
           IN  /\ \A i \in 1..Len(log[t]) :
                      IF i <= n
                      THEN /\ log[t][i][1] = "remove" /\ log[t][i][2] \in owned
                           /\ \A j \in 1..(i - 1) : log[t][j] # log[t][i]
                      ELSE i - n <= 5 /\ log[t][i] = TeardownSteps(s)[i - n]
               /\ (\/ Events(t) \cap {"unbind", "wipe", "delete_service"} # {}
                   \/ procs # pre[t].procs
                   \/ containers # pre[t].containers
                   \/ dbService # pre[t].dbService)
                  => \A d \in owned : confs[d] = NoConf /\ loaded[d] = NoConf
               /\ dbService[s] = NoService
                  => {"reload", "unbind", "wipe"} \subseteq Events(t)

\* the service owned both domains, each with its config file, and its container
\* is gone
C11_Witness ==
    \E t \in Threads :
        /\ InCall(t, "delete_service")
        /\ \A d \in DomainNames :
               pre[t].dbDomain[d] = arg[t].service /\ pre[t].confs[d] # NoConf
        /\ pre[t].containers[arg[t].service] # None
        /\ containers[arg[t].service] = None
        /\ "wipe" \in Events(t)
        /\ \A d \in DomainNames : confs[d] = NoConf

\* in state st a delete_service(s) has been aborted after it removed config
\* files: s is still registered and owns a domain whose config file is gone
TeardownAborted(st, s) ==
    /\ st.dbService[s] # NoService
    /\ \E d \in DomainNames : st.dbDomain[d] = s /\ st.confs[d] = NoConf

\* the failures of the collaborators of delete_service (docker, the registry)
CollaboratorErrors == {"DockerError", "SQLError"}

\* C12: a delete_service(s) that follows a delete_service(s) aborted part-way
\* fails only if one of its collaborators fails, and when it returns s is absent
\* from the registry and has no config file and no container.
C12_DeleteReentrant ==
    \A t \in Threads :
        (/\ InCall(t, "delete_service") /\ pc[t] = "done"
         /\ TeardownAborted(pre[t], arg[t].service))
        => /\ result[t].how = "raised" => result[t].value \in CollaboratorErrors
           /\ Returned(t) =>
                 /\ dbService[arg[t].service] = NoService
                 /\ containers[arg[t].service] = None
                 /\ \A d \in DomainNames :
                        pre[t].dbDomain[d] = arg[t].service => confs[d] = NoConf

\* the certificate step of the call of t has ended other than on the lock
CertStepEnded(t) ==
    \/ Events(t) \cap {"install", "issue"} # {}
    \/ result[t].how = "raised" /\ "reload" \in Events(t)

\* C13: in add_domain the certificate step is tried again only after it failed on
\* the certbot lock: each such failure is followed by a sleep of 5 seconds, the
\* step is never started a 13th time, and a pass that does not fail on the lock
\* is the last one.
C13_LockRetry ==
    \A t \in Threads :
        InCall(t, "add_domain") =>
            /\ loc[t].attempts \in 0..12
            /\ loc[t].slept = 5 * loc[t].attempts
            /\ pc[t] = "nd_cert" => loc[t].attempts < 12 /\ ~CertStepEnded(t)
            /\ loc[t].attempts > 0 => "reload" \in Events(t)
            /\ "insecure" \in Events(t) <=> loc[t].attempts = 12
            /\ CertStepEnded(t) => "insecure" \notin Events(t)

\* eleven passes failed on the lock, the twelfth did not and ended the loop
C13_Witness ==
    \E t \in Threads :
        /\ InCall(t, "add_domain") /\ pc[t] = "done"
        /\ loc[t].attempts = 11 /\ loc[t].slept = 55
        /\ CertStepEnded(t)

\* C14: an add_domain whose 12 certificate passes all failed on the lock does not
\* fail: it returns with the domain claimed and proxied over plain http, and
\* what it returns tells the caller so: it is not the value (None) that an
\* add_domain returns when the certificate step went through.
C14_DegradedReported ==
    \A t \in Threads :
        (InCall(t, "add_domain") /\ pc[t] = "done" /\ loc[t].attempts = 12)
        => LET d == arg[t].domain
           IN  /\ Returned(t)
               /\ dbDomain[d] = arg[t].service
               /\ confs[d] = gen_config_with_sock(d, sock_of(arg[t].service))
               /\ loaded[d] = confs[d]
               /\ result[t].value # None

\* C15: no call of run_deploy, add_domain or delete_service ends with an exception
\* reaching its caller: a failure of docker, nginx, certbot, the filesystem or
\* the registry is turned into a returned result.
C15_NoRawException ==
    \A t \in Threads :
        (pc[t] = "done" /\ arg[t].op \in {"run_deploy", "add_domain", "delete_service"})
        => result[t].how = "returned"

\* the one-level wildcard of a domain: "*." and what follows the first label
OneLevelWildcard(d) ==
    CASE d = "api.example.com" -> "*.example.com"
      [] d = "example.com" -> "*.com"

\* the positions of the enumerated certificates whose names contain name
Covering(name) == { i \in 1..Len(certs) : name \in certs[i].names }

\* the call of t is a cert_else_false that has returned
Selected(t, force_wildcard) ==
    /\ InCall(t, "cert_else_false") /\ Returned(t)
    /\ arg[t].force_wildcard = force_wildcard

\* C16: without force_wildcard, when some enumerated certificate has the domain
\* among its names, cert_else_false returns the first such certificate in
\* enumeration order, also when a certificate for the wildcard comes before it.
C16_ExactBeatsWildcard ==
    \A t \in Threads :
        (Selected(t, FALSE) /\ Covering(arg[t].domain) # {})
        => LET first == CHOOSE i \in Covering(arg[t].domain) :
                            \A j \in Covering(arg[t].domain) : i <= j
           IN  /\ loc[t].cert = certs[first]
               /\ arg[t].domain \in loc[t].cert.names
               /\ result[t].value = LiveDirs[first]

\* a certificate for the wildcard only is enumerated before the first one for
\* the domain, and the latter is returned
C16_Witness ==
    \E t \in Threads :
        /\ Selected(t, FALSE)
        /\ Len(certs) = 2
        /\ certs[1].names = {OneLevelWildcard(arg[t].domain)}
        /\ certs[2].names = {arg[t].domain}
        /\ loc[t].cert = certs[2]

\* C17: without force_wildcard, when no enumerated certificate has the domain
\* among its names, cert_else_false returns an enumerated certificate that has
\* the one-level wildcard of the domain among its names if there is one, and
\* the no-certificate value if there is none.
C17_WildcardFallback ==
    \A t \in Threads :
        (Selected(t, FALSE) /\ Covering(arg[t].domain) = {})
        => IF Covering(OneLevelWildcard(arg[t].domain)) # {}
           THEN \E i \in Covering(OneLevelWildcard(arg[t].domain)) :
                    loc[t].cert = certs[i] /\ result[t].value = LiveDirs[i]
           ELSE loc[t].cert = NoCert /\ result[t].value = None

\* only a wildcard certificate covers the domain, and it is returned
C17_Witness ==
    \E t \in Threads :
        /\ Selected(t, FALSE)
        /\ Covering(arg[t].domain) = {}
        /\ Len(certs) = 2
        /\ Covering(OneLevelWildcard(arg[t].domain)) = {2}
        /\ loc[t].cert = certs[2]

\* C18: with force_wildcard, cert_else_false returns an enumerated certificate
\* that has the one-level wildcard of the domain among its names if there is
\* one and the no-certificate value otherwise; a certificate that has the domain
\* but not its wildcard among its names is never returned.
C18_ForceWildcard ==
    \A t \in Threads :
        Selected(t, TRUE)
        => /\ IF Covering(OneLevelWildcard(arg[t].domain)) # {}
              THEN \E i \in Covering(OneLevelWildcard(arg[t].domain)) :
                       loc[t].cert = certs[i] /\ result[t].value = LiveDirs[i]
              ELSE loc[t].cert = NoCert /\ result[t].value = None
           /\ loc[t].cert # NoCert
              => OneLevelWildcard(arg[t].domain) \in loc[t].cert.names

\* a certificate for the domain itself comes first and is passed over
C18_Witness ==
    \E t \in Threads :
        /\ Selected(t, TRUE)
        /\ Len(certs) = 2
        /\ certs[1].names = {arg[t].domain}
        /\ certs[2].names = {OneLevelWildcard(arg[t].domain)}
        /\ loc[t].cert = certs[2]

\* the call of t has returned and the last thing it did was propagate_services
Propagated(t) ==
    /\ Returned(t) /\ log[t] # <<>>
    /\ log[t][Len(log[t])][1] = "propagate"

\* C19: after propagate_services the snapshot holds exactly the names that have
\* both a container on the bridge and a registry record; the sidecar is not in
\* it, and a container without a registry record is left out without an error.
C19_SnapshotReconciled ==
    \A t \in Threads :
        Propagated(t)
        => /\ services = { n \in Names : containers[n] # None /\ dbService[n] # NoService }
           /\ SocatContainer \notin services

\* one container on the bridge is registered and one is not
C19_Witness ==
    \E t \in Threads :
        /\ Propagated(t)
        /\ \E n, m \in Names :
              /\ containers[n] # None /\ dbService[n] = NoService /\ n \notin services
              /\ containers[m] # None /\ dbService[m] # NoService /\ m \in services

\* C20: bind does not wait for the socket and does not report its absence: once
\* the socat command is started bind starts a _fix_permissions thread and
\* returns, whether the socket exists or not, and the socket is from then on
\* waited for by that thread alone; bind only fails when the command could not
\* be started.
C20_BindDoesNotWait ==
    \A t \in Threads :
        (InCall(t, "bind") /\ pc[t] = "done")
        => IF "bind" \in Events(t)
           THEN /\ Returned(t)
                /\ socks[arg[t].service] # "open" => fixers[arg[t].service] > 0
           ELSE /\ result[t] = [how |-> "raised", value |-> "DockerError"]
                /\ procs = pre[t].procs

\* bind has returned and the socket of the service does not exist yet
C20_Witness ==
    \E t \in Threads :
        /\ InCall(t, "bind") /\ Returned(t)
        /\ socks[arg[t].service] = "absent"
        /\ fixers[arg[t].service] > 0
        /\ \E i \in 1..Len(procs) : procs[i].service = arg[t].service

\* C25: add_domain_to_service(d, s) returns True exactly when the call itself
\* changed d from unowned to owned by s; when d was already owned, by s or by
\* another service, it returns False and leaves the registry as it was.
C25_ClaimReturnsBound ==
    \A t \in Threads :
        (InCall(t, "add_domain") /\ loc[t].ret # None)
        => LET d == arg[t].domain
           IN  /\ loc[t].ret = "True"
                  <=> (pre[t].dbDomain[d] \in Unowned /\ "claim" \in Events(t))
               /\ pre[t].dbDomain[d] \notin Unowned
                  => loc[t].ret = "False" /\ dbDomain[d] = pre[t].dbDomain[d]

\* the failures of the registry step of add_domain
ClaimErrors == {"AttributeError", "IntegrityError"}

\* C30: an add_domain_to_service(d, name) that fails, as it does when no service
\* called name is registered, leaves the registry as it was before the call: no
\* row for d has been added.
C30_ClaimTransactional ==
    \A t \in Threads :
        (/\ InCall(t, "add_domain") /\ pc[t] = "done"
         /\ result[t].how = "raised" /\ result[t].value \in ClaimErrors)
        => dbDomain = pre[t].dbDomain /\ dbService = pre[t].dbService

\* the _fix_permissions threads started for service s so far: one by each bind
\* that has started its socat command, less the bind that is about to start its own
FixersStarted(s) ==
    Cardinality({ i \in 1..Len(procs) : procs[i].service = s })
    - Cardinality({ t \in Threads : pc[t] = "bd_thread" /\ arg[t].service = s })

\* while the socket of a service does not exist every thread started for it is
\* still waiting
FixersWait ==
    \A s \in Names : socks[s] = "absent" => fixers[s] = FixersStarted(s)

\* a step that opens the permissions of a socket finds the socket there and ends
\* one thread
OpensExistingSocket ==
    \A s \in Names :
        (socks'[s] = "open" /\ socks[s] # "open")
        => socks[s] = "created" /\ fixers'[s] = fixers[s] - 1

\* C21: a _fix_permissions thread runs chmod on the socket only once the socket
\* exists; when the socket exists the threads waiting for it get to open its
\* permissions and end; while the socket does not exist they all keep waiting:
\* none ends and none reports anything.
C21_FixPermissions ==
    /\ []FixersWait
    /\ [][OpensExistingSocket]_vars
    /\ \A s \in Names :
           (socks[s] # "absent" /\ fixers[s] > 0) ~> (socks[s] = "open" /\ fixers[s] = 0)

\* the socket of one service appeared and its thread has ended; the socket of the
\* other has not and its thread is waiting
C21_Witness ==
    \E s, r \in Names :
        /\ socks[s] = "open" /\ fixers[s] = 0 /\ FixersStarted(s) > 0
        /\ socks[r] = "absent" /\ fixers[r] > 0

\* C22: unbind(s, port) when no bridging process for (s, port) is running in the
\* sidecar ends without an error of its own and leaves the processes of the
\* sidecar as they were.
C22_UnbindIdempotent ==
    \A t \in Threads :
        (/\ InCall(t, "unbind") /\ pc[t] = "done"
         /\ \A i \in 1..Len(pre[t].procs) :
                pre[t].procs[i] # [service |-> arg[t].service, port |-> arg[t].port])
        => /\ procs = pre[t].procs
           /\ result[t].how = "raised" => result[t].value = "DockerError"

\* C23: when _setup(force) returns the bridge network and a sidecar container
\* exist; it builds the socat image only when force is set or there was no such
\* image; and when it has built the image, the sidecar container that was there
\* is removed and the container there at the end was started from the new build.
C23_SetupEnsures ==
    \A t \in Threads :
        InCall(t, "_setup")
        => LET rebuilt == sidecar.image # pre[t].sidecar.image
           IN  /\ Returned(t) => sidecar.network /\ sidecar.container # 0
               /\ rebuilt => arg[t].force \/ pre[t].sidecar.image = 0
               /\ "build" \in Events(t) <=> rebuilt
               /\ (rebuilt /\ pc[t] \in {"st_container", "done"} /\ "wipe" \in Events(t))
                  => sidecar.container \in {0, sidecar.image}
               /\ (rebuilt /\ Returned(t))
                  => "wipe" \in Events(t) /\ sidecar.container = sidecar.image

\* a forced _setup replaced a sidecar that was running socat commands
C23_Witness ==
    \E t \in Threads :
        /\ InCall(t, "_setup") /\ Returned(t) /\ arg[t].force
        /\ pre[t].sidecar = [network |-> TRUE, image |-> 1, container |-> 1,
                             running |-> TRUE]
        /\ pre[t].procs # <<>>
        /\ sidecar = [network |-> TRUE, image |-> 2, container |-> 2, running |-> TRUE]
        /\ procs = <<>>

\* the row of the registry that holds token key in the rows ks (one at most)
RowOf(ks, key) == { ks[i] : i \in { j \in 1..Len(ks) : ks[j].key = key } }

\* C28: check_api_key(key, ip) on a key issued to ip accepts it at every time
\* before issued_at + expires_in and rejects it at every time from then on.
C28_ExpiryBoundary ==
    \A t \in Threads :
        (InCall(t, "check_api_key") /\ Returned(t))
        => \A k \in RowOf(apikeys, arg[t].key) :
               k.ip = arg[t].ip
               => (result[t].value = "True" <=> loc[t].at < k.issued_at + k.expires_in)

\* C29: revoke_api_key(key) on a known key returns True having set expires_in to 0
\* and kept the row with its key, ip and issued_at, and every other row as it was;
\* on an unknown key it returns False and the rows are as before; and
\* check_api_key on a revoked key is False for every ip, now and at every later
\* reading of the clock.
C29_RevokeZeroes ==
    \A t \in Threads :
        /\ (InCall(t, "revoke_api_key") /\ Returned(t))
           => IF RowOf(pre[t].apikeys, arg[t].key) = {}
              THEN result[t].value = "False" /\ apikeys = pre[t].apikeys
              ELSE /\ result[t].value = "True"
                   /\ Len(apikeys) = Len(pre[t].apikeys)
                   /\ \A i \in 1..Len(apikeys) :
                          apikeys[i] = IF pre[t].apikeys[i].key = arg[t].key
                                       THEN [pre[t].apikeys[i] EXCEPT !.expires_in = 0]
                                       ELSE pre[t].apikeys[i]
        /\ (InCall(t, "check_api_key") /\ Returned(t))
           => \A k \in RowOf(apikeys, arg[t].key) :
                  k.expires_in = 0 => result[t].value = "False"
        /\ \A i \in 1..Len(apikeys) :
               apikeys[i].expires_in = 0
               => \A n \in Instants : n >= now => is_expired(apikeys[i], n)

\* a key was issued, revoked, and then refused to the address it was issued to
\* while its hour had not passed
C29_Witness ==
    \E t \in Threads :
        /\ InCall(t, "check_api_key") /\ Returned(t)
        /\ result[t].value = "False"
        /\ loc[t].at < KeyTTL - ExpiryMargin
        /\ \E k \in RowOf(apikeys, arg[t].key) :
               k.ip = arg[t].ip /\ k.expires_in = 0 /\ k.issued_at = 0

DuplicateKey == {"IntegrityError", "FlushError"}

\* C24: create_service(name, image, port) for a name that has a row raises a
\* duplicate-key error and leaves the service table as it was; and the calls of
\* the registry made afterwards end as they would have without it:
\* create_service for a name without a row inserts it and returns, and
\* get_service_by_name returns the row of the name, or None.
C24_DuplicateNoEffect ==
    \A t \in Threads :
        /\ (InCall(t, "create_service") /\ pc[t] = "done")
           => IF pre[t].dbService[arg[t].service] # NoService
              THEN /\ result[t].how = "raised" /\ result[t].value \in DuplicateKey
                   /\ dbService = pre[t].dbService
              ELSE /\ Returned(t)
                   /\ dbService = [pre[t].dbService EXCEPT ![arg[t].service] =
                                       [image |-> arg[t].image, port |-> arg[t].port]]
        /\ (InCall(t, "get_service_by_name") /\ pc[t] = "done")
           => Returned(t) /\ result[t].value = get_service_by_name(arg[t].service)

\* C26: remove_domain(s, d) ends with d unowned, <d>.conf deleted and the proxy
\* reloaded when d was owned by s, and with the claims and the config files as
\* they were when it was not.
C26_RemoveDomain ==
    \A t \in Threads :
        (InCall(t, "remove_domain") /\ pc[t] = "done")
        => IF pre[t].dbDomain[arg[t].domain] = arg[t].service
           THEN /\ Returned(t)
                /\ dbDomain[arg[t].domain] \in Unowned
                /\ confs[arg[t].domain] = NoConf
                /\ "reload" \in Events(t)
           ELSE dbDomain = pre[t].dbDomain /\ confs = pre[t].confs

\* C27: the server block gen_config returns for (domain, proxy_pass, logs_pre) on
\* an instance with default domain default lists domain first, lists www.<domain>
\* exactly when domain has two labels, carries the default_server mark exactly
\* when domain = default, lists nothing else, and has proxy_pass as the upstream
\* of its proxy directive; two calls with the same arguments return the same block.
C27_GenConfig ==
    \A t \in Threads :
        (InCall(t, "gen_config") /\ Returned(t))
        => LET c == result[t].value
               d == arg[t].domain
               names == { c.server_name[i] : i \in 1..Len(c.server_name) }
               www == <<"www">> \o split(d)
           IN  /\ c.server_name[1] = split(d)
               /\ www \in names <=> Len(split(d)) = 2
               /\ <<"default_server">> \in names <=> d = arg[t].default
               /\ names \subseteq {split(d), www, <<"default_server">>}
               /\ c.proxy_pass = arg[t].proxy_pass
               /\ \A u \in Threads :
                      (InCall(u, "gen_config") /\ Returned(u) /\ arg[u] = arg[t])
                      => result[u].value = c

\* the block for the two-label default domain
C27_Witness ==
    \E t \in Threads :
        /\ InCall(t, "gen_config") /\ Returned(t)
        /\ arg[t].domain = "example.com" /\ arg[t].default = "example.com"
        /\ result[t].value.server_name
             = << <<"example", "com">>, <<"www", "example", "com">>, <<"default_server">> >>
        /\ result[t].value.proxy_pass = proxy_pass_of(sock_of("api"))

\* the bridging processes in ps that were not started for (service, port)
NotFor(ps, service, port) ==
    LET Other(x) == x # [service |-> service, port |-> port]
    IN  SelectSeq(ps, Other)

\* C31: unbind(s, p) leaves running every bridging process that was started for
\* another service name or for another port of s, also a port that begins with p.
C31_UnbindExact ==
    \A t \in Threads :
        (InCall(t, "unbind") /\ pc[t] = "done")
        => NotFor(procs, arg[t].service, arg[t].port)
             = NotFor(pre[t].procs, arg[t].service, arg[t].port)

\* C32: in every call of add_domain and delete_service that has ended, by return
\* or by an exception, each write and each removal of a config file was followed
\* by a reload of nginx within the call.
C32_ReloadFollows ==
    \A t \in Threads :
        ((InCall(t, "add_domain") \/ InCall(t, "delete_service")) /\ pc[t] = "done")
        => \A i \in 1..Len(log[t]) :
               log[t][i][1] \in {"write", "remove"}
               => \E j \in (i + 1)..Len(log[t]) : log[t][j][1] = "reload"

\* the registry and the config directory of snapshot S agree: <d>.conf exists
\* exactly when d is owned by a service, and it proxies to that service's socket
Agree(S) ==
    \A d \in DomainNames :
        /\ S.confs[d] # NoConf <=> S.dbDomain[d] \in Names
        /\ S.dbDomain[d] \in Names
           => S.confs[d].proxy_pass = proxy_pass_of(sock_of(S.dbDomain[d]))

\* C33: the registry and the config directory agree when the server starts, and
\* every call of run_deploy, add_domain and delete_service that begins with them
\* in agreement and returns leaves them in agreement; so they agree at every
\* boundary of a run in which no call fails.
C33_RegistryProxyAgree ==
    /\ calls = 0 => Agree(Snapshot)
    /\ \A t \in Threads :
           (Returned(t) /\ Agree(pre[t])) => Agree(Snapshot)

\* an add_domain that wrote the config file of a domain it claimed has returned
C33_Witness ==
    \E t \in Threads :
        /\ InCall(t, "add_domain") /\ Returned(t) /\ Agree(pre[t])
        /\ "write" \in Events(t)
        /\ pre[t].dbDomain[arg[t].domain] \notin Names
        /\ dbDomain[arg[t].domain] = arg[t].service
        /\ \E d \in DomainNames : d # arg[t].domain /\ pre[t].dbDomain[d] \in Names

\* service s has a container on the bridge and a bridging process in the sidecar
Served(s) ==
    /\ containers[s] # None
    /\ \E i \in 1..Len(procs) : procs[i].service = s

\* C34: in every state, each config file nginx has loaded proxies to the socket
\* of a service that has a container and a bridging process.
C34_LoadedTargetsServed ==
    \A d \in DomainNames :
        loaded[d] # NoConf
        => \E s \in Names : /\ loaded[d].proxy_pass = proxy_pass_of(sock_of(s))
                            /\ Served(s)

\* the bridging processes in ps that forward to service s
BridgesOf(ps, s) == { i \in 1..Len(ps) : ps[i].service = s }

\* C35: when delete_service(s) has returned for a registered service s, no
\* bridging process that forwards to s is left in the sidecar.
C35_DeleteUnbindsAll ==
    \A t \in Threads :
        (/\ InCall(t, "delete_service") /\ Returned(t)
         /\ pre[t].dbService[arg[t].service] # NoService)
        => BridgesOf(procs, arg[t].service) = {}

\* C36: in every state the sidecar holds at most one bridging process per
\* service name.
C36_OneBridgePerService ==
    \A s \in Names : Cardinality(BridgesOf(procs, s)) <= 1

\* C37: an add_domain(s, d) that begins with d claimed by s and proxied by a
\* config file without a certificate goes through the certificate step: it
\* ends with a certificate installed or issued, with the exception of that
\* step, or with the lock retries exhausted.
C37_RetrySecures ==
    \A t \in Threads :
        (/\ InCall(t, "add_domain") /\ pc[t] = "done"
         /\ pre[t].dbDomain[arg[t].domain] = arg[t].service
         /\ pre[t].confs[arg[t].domain] # NoConf
         /\ pre[t].confs[arg[t].domain].cert = None)
        => \/ Events(t) \cap {"install", "issue", "insecure"} # {}
           \/ result[t].how = "raised"

\* C38: on a list of certificates none of which has the domain itself among its
\* names, the certificate cert_else_false returned is the one it returns on the
\* same list with force_wildcard the other way.
C38_ForceAgrees ==
    \A t \in Threads :
        (/\ InCall(t, "cert_else_false") /\ Returned(t)
         /\ Covering(arg[t].domain) = {})
        => loc[t].cert = cert_else_false(certs, arg[t].domain, ~arg[t].force_wildcard)

\* C39: when _setup has returned, the sidecar container is running.
C39_SetupRunning ==
    \A t \in Threads :
        (InCall(t, "_setup") /\ Returned(t)) => sidecar.running

====
